---- MODULE Spec2Model ----
(***************************************************************************)
(* Model of flask-mailing: the Mail facade (mail.py), the scoped SMTP      *)
(* connection (connection.py), the MIME builder (msg.py), the             *)
(* record_messages capture scope and the Message descriptor (schemas.py),  *)
(* Mail.init_app, the RateLimiter (security.py) and the Redis domain       *)
(* blacklist of DefaultChecker (utils/email_check.py).                     *)
(*                                                                         *)
(* Python values are records [t, v]: t is the Python type ("none", "str",  *)
(* "list", "dict") and v a number standing for the content; v = 0 is the   *)
(* empty value of the type, so truthiness is t # "none" /\ v # 0.          *)
(***************************************************************************)
EXTENDS Integers, Sequences, FiniteSets, TLC

\* ------------------------------------------------------------------ bounds
\* send_message calls in a behaviour
MaxCalls == 2
\* tuples sent by send_mass_mail in a behaviour
MaxBatch == 3
\* record_messages scopes in a behaviour
MaxScopes == 2
\* add_recipient calls on a Message
MaxAdds == 2
\* attachments of a Message, given at construction or attached later
MaxFiles == 2
\* the clock of the rate limiter runs from 0 to MaxTime
MaxTime == 2
\* concurrent callers of the rate limiter
MaxTasks == 2
\* concurrent callers of the domain blacklist, and the calls they make in all
MaxWorkers == 2
MaxRequests == 3

\* ------------------------------------------------------------ Python values
None == [t |-> "none", v |-> 0]
StrVal(n) == [t |-> "str", v |-> n]
ListVal(n) == [t |-> "list", v |-> n]
DictVal(n) == [t |-> "dict", v |-> n]

Truthy(x) == x.t # "none" /\ x.v # 0

\* str(content) of msg.py: a string is itself, a mapping or a sequence is
\* turned into its textual form (a different string for each value)
Str(x) ==
    IF x.t = "str" THEN x
    ELSE IF x.t = "dict" THEN StrVal(10 + x.v)
    ELSE IF x.t = "list" THEN StrVal(20 + x.v)
    ELSE StrVal(9)

\* template.render(**data): the rendered text of a mapping
RenderKeywords(data) == StrVal(30 + data.v)
\* template.render({"body": data}): the rendered text of a sequence
RenderBody(data) == StrVal(40 + data.v)

\* ------------------------------------------------------------------ errors
NoError == [type |-> "ok", msg |-> "", cause |-> "none"]
Exc(type, msg, cause) == [type |-> type, msg |-> msg, cause |-> cause]

\* Mail.make_dict: a dict is returned, anything else goes through dict(),
\* which raises for a string and is translated to ValueError
make_dict(data) ==
    IF data.t = "dict"
    THEN [err |-> NoError, val |-> data]
    ELSE [err |-> Exc("ValueError", "Unable to build template data dictionary", "ValueError"),
          val |-> None]

\* ------------------------------------------------------------- descriptors
\* a Message, another pydantic model (e.g. the ConnectionConfig), or an
\* object that is no pydantic model at all
Classes == {"Message", "OtherModel", "NotModel"}

Descriptor(cls, body, html, tb, subtype) ==
    [cls |-> cls, body |-> body, html |-> html, template_body |-> tb, subtype |-> subtype]

BodyValues == {None, StrVal(1)}
HtmlValues == {None, StrVal(2)}
TemplateBodyValues == {None, DictVal(0), DictVal(1), ListVal(0), ListVal(1), StrVal(3)}
Subtypes == {"none", "plain", "html"}

\* Message has validate_assignment=False, so after construction any field can
\* hold any value of its declared type
MessageDescriptors ==
    { Descriptor("Message", b, h, tb, st) :
        b \in BodyValues, h \in HtmlValues, tb \in TemplateBodyValues, st \in Subtypes }

\* an object without the Message fields
Blank(cls) == Descriptor(cls, None, None, None, "none")

TemplateNames == {"none", "t.html", "missing.html"}

\* env.get_template(name)
get_mail_template(name) ==
    IF name = "t.html" THEN NoError
    ELSE Exc("TemplateNotFound", name, "TemplateNotFound")

\* ------------------------------------------------------------ MIME builder
Part(subtype, content) == [subtype |-> subtype, content |-> content]

\* a builder that attaches an HTML part for template content only, never
\* for a bare body
MailMsg_messagePlainOnly(m) ==
    LET plain == IF Truthy(m.body) THEN <<Part("plain", m.body)>> ELSE <<>>
    IN  IF Truthy(m.template_body)
        THEN IF ~Truthy(m.html) /\ m.subtype = "html"
             THEN [err |-> NoError, parts |-> Append(plain, Part("html", Str(m.template_body)))]
             ELSE [err |-> Exc("ValueError", "Cannot send both Jinja2 template content and HTML content", "ValueError"),
                   parts |-> <<>>]
        ELSE IF Truthy(m.body)
        THEN [err |-> NoError, parts |-> plain]
        ELSE IF Truthy(m.html)
        THEN [err |-> NoError, parts |-> <<Part("html", m.html)>>]
        ELSE [err |-> NoError, parts |-> <<>>]

\* MailMsg._message, body part policy (attachments and headers apart)
MailMsg_message(m) ==
    LET plain == IF Truthy(m.body) THEN <<Part("plain", m.body)>> ELSE <<>>
    IN  IF Truthy(m.template_body) \/ Truthy(m.body)
        THEN IF ~Truthy(m.html) /\ m.subtype = "html"
             THEN [err |-> NoError,
                   parts |-> Append(plain,
                       Part(m.subtype,
                            Str(IF Truthy(m.template_body) THEN m.template_body ELSE m.body)))]
             ELSE IF Truthy(m.template_body)
             THEN [err |-> Exc("ValueError", "Cannot send both Jinja2 template content and HTML content", "ValueError"),
                   parts |-> <<>>]
             ELSE [err |-> NoError, parts |-> plain]
        ELSE IF Truthy(m.html)
        THEN [err |-> NoError, parts |-> Append(plain, Part("html", m.html))]
        ELSE [err |-> NoError, parts |-> plain]

\* a template branch that leaves the template data alone when html is set
RenderIntoUnlessHtml(m) ==
    IF m.cls # "Message"
    THEN [err |-> Exc("AttributeError", "template_body", "AttributeError"), m |-> m]
    ELSE IF Truthy(m.template_body) /\ ~Truthy(m.html) /\ m.template_body.t = "list"
    THEN [err |-> NoError,
          m |-> [m EXCEPT !.template_body = RenderBody(m.template_body), !.subtype = "html"]]
    ELSE IF Truthy(m.template_body) /\ ~Truthy(m.html) /\ m.template_body.t = "dict"
    THEN [err |-> NoError,
          m |-> [m EXCEPT !.template_body = RenderKeywords(m.template_body), !.subtype = "html"]]
    ELSE [err |-> NoError, m |-> m]

\* Mail.__prepare_message, the template branch: the descriptor after the
\* rendering (template_body and subtype rewritten) or the error it raises
RenderInto(m) ==
    LET tb == m.template_body
    IN  IF m.cls # "Message"
        THEN [err |-> Exc("AttributeError", "template_body", "AttributeError"), m |-> m]
        ELSE IF Truthy(tb) /\ ~Truthy(m.html)
        THEN IF tb.t = "list"
             THEN [err |-> NoError,
                   m |-> [m EXCEPT !.template_body = RenderBody(tb), !.subtype = "html"]]
             ELSE IF make_dict(tb).err # NoError
             THEN [err |-> make_dict(tb).err, m |-> m]
             ELSE [err |-> NoError,
                   m |-> [m EXCEPT !.template_body = RenderKeywords(make_dict(tb).val),
                                   !.subtype = "html"]]
        ELSE IF Truthy(m.html)
        THEN IF tb.t = "list"
             THEN [err |-> NoError, m |-> [m EXCEPT !.template_body = RenderBody(tb)]]
             ELSE IF Truthy(tb)
             THEN IF make_dict(tb).err # NoError
                  THEN [err |-> make_dict(tb).err, m |-> m]
                  ELSE [err |-> NoError,
                        m |-> [m EXCEPT !.template_body = RenderKeywords(make_dict(tb).val)]]
             ELSE [err |-> NoError, m |-> m]
        ELSE [err |-> NoError, m |-> m]

\* __prepare_message that builds from the rendering but does not write it
\* back into the descriptor
prepare_messageNoWriteBack(m, hasTemplate) ==
    LET r == IF hasTemplate THEN RenderInto(m) ELSE [err |-> NoError, m |-> m]
        b == MailMsg_message(r.m)
    IN  IF r.err # NoError
        THEN [err |-> r.err, m |-> m, parts |-> <<>>, events |-> <<>>]
        ELSE [err |-> b.err, m |-> m, parts |-> b.parts,
              events |-> (IF r.m.template_body # m.template_body
                          THEN <<[op |-> "render", ok |-> TRUE]>> ELSE <<>>)
                         \o <<[op |-> "build", ok |-> b.err = NoError]>>]

\* Mail.__prepare_message: render when a template is given, then build
prepare_message(m, hasTemplate) ==
    LET r == IF hasTemplate THEN RenderInto(m) ELSE [err |-> NoError, m |-> m]
        b == MailMsg_message(r.m)
    IN  IF r.err # NoError
        THEN [err |-> r.err, m |-> r.m, parts |-> <<>>, events |-> <<>>]
        ELSE [err |-> b.err, m |-> r.m, parts |-> b.parts,
              events |-> (IF r.m.template_body # m.template_body
                          THEN <<[op |-> "render", ok |-> TRUE]>> ELSE <<>>)
                         \o <<[op |-> "build", ok |-> b.err = NoError]>>]


\* ------------------------------------------------- Message (schemas.py)
\* an email address as the caller writes it: the text before the "@", the
\* number of "@" signs and the text after them (0 is the empty text)
Address(local, ats, domain) == [local |-> local, ats |-> ats, domain |-> domain]

\* a@x.org, b@x.org and the string "a" that is no address
Addresses == {Address(1, 1, 1), Address(2, 1, 1), Address(1, 0, 0)}

\* EmailStr: local-part@domain
IsEmail(a) == a.ats = 1 /\ a.local # 0 /\ a.domain # 0

\* a path string: what the file system answers for it (a regular file, one
\* the process can read, one outside the current working directory) and what
\* its text holds (a ".." component, a null byte)
PathOf(regular, readable, dotdot, nul, outside) ==
    [regular |-> regular, readable |-> readable, dotdot |-> dotdot, nul |-> nul,
     outside |-> outside]
NoPath == PathOf(FALSE, FALSE, FALSE, FALSE, FALSE)

\* an entry of the attachments argument: a path string, a FileStorage or
\* something else, given as such (meta "none"), as the "file" of a metadata
\* dictionary (meta "dict"), or a dictionary without the key (meta "nofile")
Source(kind, meta, path, filename) ==
    [kind |-> kind, meta |-> meta, path |-> path, filename |-> filename]

GoodSources ==
    { Source("str", "none", PathOf(TRUE, TRUE, FALSE, FALSE, FALSE), "a.txt"),
      Source("str", "dict", PathOf(TRUE, TRUE, FALSE, FALSE, FALSE), "b.png"),
      Source("FileStorage", "none", NoPath, "c.bin"),
      Source("FileStorage", "dict", NoPath, "") }

\* /etc/passwd: a readable regular file outside the working directory, given
\* by an absolute path
AbsoluteSources ==
    { Source("str", "none", PathOf(TRUE, TRUE, FALSE, FALSE, TRUE), "passwd") }

\* a missing file, a directory, an unreadable file, files/../a.txt,
\* ../../etc/passwd (as such and in a dictionary), a path with a null byte
BadPathSources ==
    { Source("str", "none", PathOf(FALSE, FALSE, FALSE, FALSE, FALSE), "a.txt"),
      Source("str", "none", PathOf(FALSE, TRUE, FALSE, FALSE, FALSE), "files"),
      Source("str", "none", PathOf(TRUE, FALSE, FALSE, FALSE, FALSE), "a.txt"),
      Source("str", "none", PathOf(TRUE, TRUE, TRUE, FALSE, FALSE), "a.txt"),
      Source("str", "none", PathOf(TRUE, TRUE, TRUE, FALSE, TRUE), "passwd"),
      Source("str", "dict", PathOf(TRUE, TRUE, TRUE, FALSE, TRUE), "passwd"),
      Source("str", "none", PathOf(FALSE, FALSE, FALSE, TRUE, FALSE), "a.txt") }

\* a dictionary without the "file" key, a number
OtherSources ==
    { Source("int", "nofile", NoPath, ""),
      Source("int", "none", NoPath, "") }

Sources == GoodSources \cup AbsoluteSources \cup BadPathSources \cup OtherSources

\* an entry of Message.attachments: the (FileStorage, metadata) pair the
\* validator makes, or the bare FileStorage that attach() appends, whose data
\* has so many lines. The FileStorage wraps a stream: read tells that the
\* stream was read to its end, lines is what is left to iterate
Pair(filename, meta) ==
    [form |-> "pair", filename |-> filename, meta |-> meta, lines |-> 0, read |-> FALSE]
Bare(filename, lines) ==
    [form |-> "bare", filename |-> filename, meta |-> FALSE, lines |-> lines, read |-> FALSE]

\* _validate_attachment_path without the traversal check
validate_attachment_pathNoTraversalCheck(path) ==
    IF path.nul THEN FALSE
    ELSE IF ~path.regular THEN FALSE
    ELSE path.readable

\* _validate_attachment_path: is_file() raises ValueError for a null byte
\* (caught: False); then the access check, then the ".." and null byte test
validate_attachment_path(path) ==
    IF path.nul THEN FALSE
    ELSE IF ~path.regular THEN FALSE
    ELSE IF ~path.readable THEN FALSE
    ELSE ~(path.dotdot \/ path.nul)

WrongFile(text) == Exc("WrongFile", text, "none")

\* Message.validate_file, one entry of the loop: the pair it appends or the
\* WrongFile it raises
validate_entry(src) ==
    IF src.meta = "nofile"
    THEN [err |-> WrongFile("Missing file key in attachment dictionary"), val |-> <<>>]
    ELSE IF src.kind = "str"
    THEN IF ~validate_attachment_path(src.path)
         THEN [err |-> WrongFile("Invalid file path for attachment"), val |-> <<>>]
         ELSE [err |-> NoError, val |-> <<Pair(src.filename, src.meta = "dict")>>]
    ELSE IF src.kind = "FileStorage"
    THEN [err |-> NoError, val |-> <<Pair(src.filename, src.meta = "dict")>>]
    ELSE [err |-> WrongFile("Invalid attachment type"), val |-> <<>>]

\* Message.validate_file: the entries in order, the first bad one raises
RECURSIVE validate_file(_)
validate_file(v) ==
    IF v = <<>> THEN [err |-> NoError, val |-> <<>>]
    ELSE LET e == validate_entry(Head(v))
             r == validate_file(Tail(v))
         IN  IF e.err # NoError THEN e
             ELSE IF r.err # NoError THEN r
             ELSE [err |-> NoError, val |-> e.val \o r.val]

\* validate_template_params that copies whenever template_body is empty
validate_template_paramsWhenEmpty(value, template_body) ==
    IF value # None /\ ~Truthy(template_body) THEN value ELSE template_body

\* Message.validate_template_params: the template_body of the validated data
\* after the validator of template_params ran
validate_template_params(value, template_body) ==
    IF value # None /\ template_body = None THEN value ELSE template_body

\* Message.validate_subtype
validate_subtype(value, template_body) ==
    IF Truthy(template_body) THEN "html" ELSE value

\* the keyword arguments of Message(...); subtype.given tells whether the
\* caller passed subtype at all (a validator runs for a passed field only)
Kwargs(recipients, cc, bcc, reply_to, attachments, body, html, tb, tp, subtype) ==
    [recipients |-> recipients, cc |-> cc, bcc |-> bcc, reply_to |-> reply_to,
     attachments |-> attachments, body |-> body, html |-> html,
     template_body |-> tb, template_params |-> tp, subtype |-> subtype]

NotGiven == [given |-> FALSE, v |-> "none"]
Given(v) == [given |-> TRUE, v |-> v]

NoMessage ==
    [cls |-> "none", recipients |-> <<>>, cc |-> <<>>, bcc |-> <<>>, reply_to |-> <<>>,
     attachments |-> <<>>, body |-> None, html |-> None, template_body |-> None,
     template_params |-> None, subtype |-> "none"]

AllEmails(seq) == \A i \in 1 .. Len(seq) : IsEmail(seq[i])

\* Message(**kw): the fields are validated in the order of their declaration.
\* WrongFile is no ValueError: it leaves the construction at once, before
\* the address errors collected so far are raised as a ValidationError
Message_init(kw) ==
    LET files == validate_file(kw.attachments)
        tb == validate_template_params(kw.template_params, kw.template_body)
        st == IF kw.subtype.given THEN validate_subtype(kw.subtype.v, tb) ELSE "none"
    IN  IF files.err # NoError
        THEN [err |-> files.err, m |-> NoMessage]
        ELSE IF ~(AllEmails(kw.recipients) /\ AllEmails(kw.cc) /\ AllEmails(kw.bcc)
                  /\ AllEmails(kw.reply_to))
        THEN [err |-> Exc("ValidationError", "value is not a valid email address", "none"),
              m |-> NoMessage]
        ELSE [err |-> NoError,
              m |-> [cls |-> "Message", recipients |-> kw.recipients, cc |-> kw.cc,
                     bcc |-> kw.bcc, reply_to |-> kw.reply_to, attachments |-> files.val,
                     body |-> kw.body, html |-> kw.html, template_body |-> tb,
                     template_params |-> kw.template_params, subtype |-> st]]

\* add_recipient that keeps the recipients free of duplicates
recipients_appendUnique(m, recipient) ==
    IF \E i \in 1 .. Len(m.recipients) : m.recipients[i] = recipient
    THEN m
    ELSE [m EXCEPT !.recipients = Append(@, recipient)]

\* Message.add_recipient: self.recipients.append(recipient)
recipients_append(m, recipient) == [m EXCEPT !.recipients = Append(@, recipient)]

\* Message.attach: self.attachments.append(fsob), the FileStorage itself
attachments_append(m, filename, lines) ==
    [m EXCEPT !.attachments = Append(@, Bare(filename, lines))]

\* file.read(): the content from the position of the stream to its end
Payload(a) == IF a.read THEN "" ELSE "content"

AttachmentPart(a) ==
    [disposition |-> "attachment",
     filename |-> IF a.filename = "" THEN "attachment" ELSE a.filename,
     typed |-> a.meta,
     payload |-> Payload(a)]

\* MailMsg.attach_file: `for file, file_meta in attachment`. A pair unpacks
\* and file.read() leaves its stream at the end; a bare FileStorage is
\* iterated line by line (which uses its lines up): unless it has exactly two
\* lines the unpacking raises ValueError, and with two lines file is a line
\* of bytes, whose read() raises AttributeError. after is the attachment list
\* as the call leaves it
RECURSIVE attach_file(_)
attach_file(attachment) ==
    IF attachment = <<>> THEN [err |-> NoError, parts |-> <<>>, after |-> <<>>]
    ELSE LET a == Head(attachment)
             r == attach_file(Tail(attachment))
         IN  IF a.form = "bare"
             THEN [err |-> IF a.lines = 2
                           THEN Exc("AttributeError", "read", "none")
                           ELSE Exc("ValueError", "values to unpack", "none"),
                   parts |-> <<>>,
                   after |-> <<[a EXCEPT !.lines = 0]>> \o Tail(attachment)]
             ELSE [err |-> r.err,
                   parts |-> IF r.err # NoError THEN <<>> ELSE <<AttachmentPart(a)>> \o r.parts,
                   after |-> <<[a EXCEPT !.read = TRUE]>> \o r.after]

NoHeaders == [To |-> <<>>, Cc |-> <<>>, Bcc |-> <<>>, ReplyTo |-> <<>>]
NoBuilt == [done |-> FALSE, err |-> NoError, headers |-> NoHeaders, body |-> <<>>, files |-> <<>>]

\* MailMsg._message: the headers (Date and Message-ID apart), the body
\* parts, then the attachments
MailMsg_build(m) ==
    LET b == MailMsg_message(m)
        f == attach_file(m.attachments)
    IN  IF b.err # NoError
        THEN [NoBuilt EXCEPT !.done = TRUE, !.err = b.err]
        ELSE IF f.err # NoError
        THEN [NoBuilt EXCEPT !.done = TRUE, !.err = f.err]
        ELSE [done |-> TRUE, err |-> NoError,
              headers |-> [To |-> m.recipients, Cc |-> m.cc, Bcc |-> m.bcc,
                           ReplyTo |-> m.reply_to],
              body |-> b.parts, files |-> f.parts]

\* the Message after MailMsg._message: model_dump hands the FileStorage
\* objects themselves to the builder, so the streams it read are those of
\* the Message
AfterBuild(m) ==
    IF MailMsg_message(m).err # NoError THEN m
    ELSE [m EXCEPT !.attachments = attach_file(m.attachments).after]

\* ------------------------------------------------- transport (aiosmtplib)
\* the exception classes the transport raises, each with the classes an
\* `except` clause can match it by (aiosmtplib's timeouts are SMTPException
\* and TimeoutError at once; its connect timeout is a SMTPConnectError too)
Bases(e) ==
    CASE e = "SMTPAuthenticationError" -> {"SMTPAuthenticationError", "SMTPException", "Exception"}
      [] e = "SMTPConnectError" -> {"SMTPConnectError", "SMTPException", "Exception"}
      [] e = "SMTPConnectTimeoutError" ->
            {"SMTPConnectError", "SMTPTimeoutError", "SMTPException", "TimeoutError", "Exception"}
      [] e = "SMTPReadTimeoutError" -> {"SMTPTimeoutError", "SMTPException", "TimeoutError", "Exception"}
      [] e = "SMTPServerDisconnected" -> {"SMTPException", "Exception"}
      [] e = "SMTPRecipientsRefused" -> {"SMTPException", "Exception"}
      [] e = "TimeoutError" -> {"TimeoutError", "Exception"}
      [] e = "ConnectionErrors" -> {"ConnectionErrors", "Exception"}
      [] OTHER -> {"Exception"}

ConnectOutcomes ==
    {"ok", "SMTPConnectError", "SMTPConnectTimeoutError", "SMTPServerDisconnected", "TimeoutError", "OSError"}
LoginOutcomes ==
    {"ok", "SMTPAuthenticationError", "SMTPReadTimeoutError", "SMTPServerDisconnected", "TimeoutError", "OSError"}
SendOutcomes == {"ok", "SMTPRecipientsRefused"}
QuitOutcomes == {"ok", "SMTPServerDisconnected", "SMTPReadTimeoutError"}

\* the except clauses of Connection._configure_connection, in their order:
\* every exception leaves as ConnectionErrors chained to its cause
TranslateError(e) ==
    IF "SMTPAuthenticationError" \in Bases(e)
    THEN Exc("ConnectionErrors", "Authentication failed", e)
    ELSE IF "SMTPConnectError" \in Bases(e)
    THEN Exc("ConnectionErrors", "Could not connect to SMTP server", e)
    ELSE IF "SMTPException" \in Bases(e)
    THEN Exc("ConnectionErrors", "SMTP error", e)
    ELSE IF "TimeoutError" \in Bases(e)
    THEN Exc("ConnectionErrors", "Connection timed out", e)
    ELSE Exc("ConnectionErrors", "Unexpected connection error", e)

\* ------------------------------------------------------- init_app (mail.py)
\* a key of app.config: absent, or present with a text (written as the
\* addresses are; Address(0, 0, 0) is the empty string)
Unset == [present |-> FALSE, text |-> Address(0, 0, 0)]
Value(text) == [present |-> TRUE, text |-> text]

\* Python's truth of what config.get returns: None and "" are false
Falsy(v) == ~v.present \/ v.text = Address(0, 0, 0)

\* dict.get(key, default): the value of a present key, whatever it is
config_get(c, key, default) == IF c[key].present THEN c[key] ELSE default

RequiredConfigs == {"MAIL_USERNAME", "MAIL_PASSWORD", "MAIL_SERVER"}

Missing(c) == {key \in RequiredConfigs : Falsy(config_get(c, key, Unset))}

mail_from(c) ==
    config_get(c, "MAIL_FROM",
               config_get(c, "MAIL_DEFAULT_SENDER", config_get(c, "MAIL_USERNAME", Unset)))

\* Mail.init_app: the extension's MAIL_FROM, or the exception raised
\* (ConnectionConfig.MAIL_FROM is an EmailStr)
init_app(c) ==
    IF Missing(c) # {}
    THEN [error |-> Exc("ValueError", "Missing required configuration", "none"),
          MAIL_FROM |-> Unset]
    ELSE IF Falsy(mail_from(c))
    THEN [error |-> Exc("ValueError",
                        "MAIL_FROM, MAIL_DEFAULT_SENDER, or MAIL_USERNAME must be configured",
                        "none"),
          MAIL_FROM |-> Unset]
    ELSE IF ~IsEmail(mail_from(c).text)
    THEN [error |-> Exc("ValidationError", "MAIL_FROM", "none"), MAIL_FROM |-> Unset]
    ELSE [error |-> NoError, MAIL_FROM |-> mail_from(c)]

NoConfig ==
    [MAIL_USERNAME |-> Unset, MAIL_PASSWORD |-> Unset, MAIL_SERVER |-> Unset,
     MAIL_FROM |-> Unset, MAIL_DEFAULT_SENDER |-> Unset]

\* no Flask application yet
NoApp == [created |-> FALSE, config |-> NoConfig, initialized |-> FALSE,
          error |-> NoError, MAIL_FROM |-> Unset]

\* ------------------------------------------------ RateLimiter (security.py)
\* RateLimiter(max_emails, window_seconds), with small values for the defaults
\* 100 and 3600
max_emails == 2
window_seconds == 2

Identifiers == {"a", "b"}
TaskIds == 1 .. MaxTasks
LimiterOps == {"is_allowed", "get_remaining", "reset", "get_reset_time"}

BoolVal(b) == [t |-> "bool", v |-> IF b THEN 1 ELSE 0]
IntVal(n) == [t |-> "int", v |-> n]
FloatVal(n) == [t |-> "float", v |-> n]

Max(a, b) == IF a >= b THEN a ELSE b
Oldest(bucket) == CHOOSE x \in {bucket[i] : i \in 1 .. Len(bucket)} :
                      \A i \in 1 .. Len(bucket) : x <= bucket[i]

\* a filter that keeps the entry that is exactly window_seconds old
UnexpiredInclusive(bucket, current_time) ==
    SelectSeq(bucket, LAMBDA timestamp : current_time - timestamp <= window_seconds)

\* # Clean expired entries
Unexpired(bucket, current_time) ==
    SelectSeq(bucket, LAMBDA timestamp : current_time - timestamp < window_seconds)

\* a limit that lets one request more through
AtLimitOffByOne(n) == n > max_emails

\* # Check if under limit
AtLimit(n) == n >= max_emails

\* get_remaining: what it returns for the bucket at that time
Remaining(bucket, current_time) ==
    Max(0, max_emails - Len(Unexpired(bucket, current_time)))

\* get_reset_time: what it returns for the bucket at that time (it does not
\* clean the bucket)
reset_time(bucket, current_time) ==
    IF bucket = <<>>
    THEN None
    ELSE FloatVal(Max(0, Oldest(bucket) + window_seconds - current_time))

\* a caller of the limiter: outside, or in the `async with self._lock` block
\* of a method
NoTask == [pc |-> "idle", op |-> "none", identifier |-> "none"]

\* what the call that ended last returned
NoReturn == [task |-> 0, op |-> "none", identifier |-> "none", value |-> None]

\* ------------------------------------ DefaultChecker (utils/email_check.py)
Domains == {"x.com", "y.com"}
WorkerIds == 1 .. MaxWorkers

\* HGET of a field that is not in the hash
Nil == 0 - 1

\* Redis after init_redis: no blocked domain, domain_counter set to 0
NoRedis == [blocked_domains |-> [d \in Domains |-> Nil], domain_counter |-> 0]

\* the fields of the blocked_domains hash
Stored(r) == {d \in Domains : r.blocked_domains[d] # Nil}

\* DefaultChecker.blocked_domain_count: int(GET domain_counter or 0)
blocked_domain_count(r) == r.domain_counter

\* a caller of blacklist_add_domain / blacklist_rm_domain, at the Redis
\* command it awaits next, with its local incr
NoWorker == [pc |-> "idle", domain |-> "none", incr |-> 0]

\* --------------------------------------------------------------- the state
VARIABLES
    config,       \* ConnectionConfig: SUPPRESS_SEND, USE_CREDENTIALS, credentials present
    pc,           \* position of the send_message call in progress
    given,        \* the descriptor as the caller passed it
    message,      \* the descriptor of the call (mutated by the rendering)
    template_name,
    msg,          \* the built MIME message: its parts
    session,      \* the Connection of the call: _connected
    events,       \* what the call did so far, in order: load, render, build,
                  \* connect, login, send, emit, quit
    emitted,      \* the messages the call handed to email_dispatched.send
    pending,      \* the exception raised inside the `async with` body
    result,       \* how the call ended
    calls,        \* number of send_message calls so far; the id of the call
    scopes,       \* the record_messages scopes: state, outbox, entry and exit
    raiser,       \* a subscriber of email_dispatched that raises is connected
    dispatchLog,  \* every emission of email_dispatched, in order
    sentInScope,  \* the call transmitted while a record_messages scope was active
    mass,         \* the send_mass_mail call: its tuples and the loop position
    kwargs,       \* the keyword arguments of the Message(...) construction
    descriptor,   \* the Message object the construction produced
    error,        \* the exception the construction raised
    before,       \* the Message object as it was before the last method call
    last,         \* the last method called on the Message, its argument and
                  \* what it returned
    built,        \* the outcome of building the MIME message from the object
    previous,     \* the outcome of the build before, of the same object
    first,        \* the failed send_message call that the caller repeats
    app,          \* the Flask application, its config and what init_app made of it
    buckets,      \* RateLimiter._buckets: the grant times kept per identifier
    lock,         \* RateLimiter._lock: the task that holds it, or 0
    now,          \* time.time()
    tasks,        \* the callers of the rate limiter
    returned,     \* the return of the limiter call that ended last
    grants,       \* per identifier, the times is_allowed returned True since the last reset
    redis,        \* the blocked_domains hash and the domain_counter key
    workers,      \* the callers of the domain blacklist
    requests      \* the blacklist calls made so far

vars == <<config, pc, given, message, template_name, msg, session, events, emitted, pending,
          result, calls, scopes, raiser, dispatchLog, sentInScope, mass,
          kwargs, descriptor, error, before, last, built, previous, first, app,
          buckets, lock, now, tasks, returned, grants, redis, workers, requests>>

\* the state of the Message object under construction and mutation
descVars == <<kwargs, descriptor, error, before, last, built, previous>>

\* the collaborators beside the send path
limiterVars == <<buckets, lock, now, tasks, returned, grants>>
checkerVars == <<redis, workers, requests>>
serviceVars == <<app, limiterVars, checkerVars>>

callVars == <<given, message, template_name, msg, session, events, emitted, pending, result,
              sentInScope>>

Configs ==
    [SUPPRESS_SEND : {0, 1}, USE_CREDENTIALS : BOOLEAN, credentials : BOOLEAN]

ScopeIds == 1 .. MaxScopes
NoScope == [st |-> "unused", hooked |-> FALSE, outbox |-> <<>>, enter |-> 0, exit |-> 0]
NoMass == [st |-> "none", items |-> <<>>, idx |-> 0, ids |-> <<>>, result |-> NoError]
NoSession == [_connected |-> FALSE]

ActiveScopes == {s \in ScopeIds : scopes[s].st = "open"}
\* the receivers of email_dispatched that record_messages connected
Hooked == {s \in ScopeIds : scopes[s].hooked}

Ev(op, ok) == [op |-> op, ok |-> ok]
Count(seq, op) == Cardinality({i \in 1 .. Len(seq) : seq[i].op = op})
Did(seq, op) == \E i \in 1 .. Len(seq) : seq[i].op = op /\ seq[i].ok

Args(m, tn) == [m |-> m, tn |-> tn]

\* the state of the send_message, send_mass_mail and record_messages calls
sendVars == <<config, pc, given, message, template_name, msg, session, events, emitted,
              pending, result, calls, scopes, raiser, dispatchLog, sentInScope, mass, first>>

NoKwargs == Kwargs(<<>>, <<>>, <<>>, <<>>, <<>>, None, None, None, None, NotGiven)
NoCall == [op |-> "none", recipient |-> Address(0, 0, 0), ret |-> FALSE]

\* a send_message call as the caller saw it: the descriptor and the template
\* name passed, the message it built, the exception it raised
NoAttempt ==
    [made |-> FALSE, given |-> Blank("NotModel"), template_name |-> "none", msg |-> <<>>,
     result |-> NoError]

\* the calls send_message(message, template_name) a caller can make: every
\* descriptor with every template name
SendArgs ==
    { Args(m, tn) : m \in MessageDescriptors \cup {Blank("OtherModel"), Blank("NotModel")},
                    tn \in TemplateNames }

\* Mail.send_mail: the descriptor it constructs from (subject, message, recipients)
MailDescriptor == Descriptor("Message", StrVal(1), None, None, "none")

\* the calls made inside record_messages scopes: a plain mail, a mail with a
\* template, one whose preparation fails, one that is no descriptor
RecordArgs ==
    { Args(MailDescriptor, "none"),
      Args(Descriptor("Message", None, None, DictVal(1), "html"), "t.html"),
      Args(Descriptor("Message", None, StrVal(2), DictVal(1), "html"), "none"),
      Args(Blank("NotModel"), "none") }

InitWith(cfgs) ==
    /\ config \in cfgs
    /\ pc = "idle"
    /\ given = Blank("NotModel")
    /\ message = Blank("NotModel")
    /\ template_name = "none"
    /\ msg = <<>>
    /\ session = NoSession
    /\ events = <<>>
    /\ emitted = <<>>
    /\ pending = NoError
    /\ result = NoError
    /\ calls = 0
    /\ scopes = [s \in ScopeIds |-> NoScope]
    /\ raiser = FALSE
    /\ dispatchLog = <<>>
    /\ sentInScope = FALSE
    /\ mass = NoMass
    /\ kwargs = NoKwargs
    /\ descriptor = NoMessage
    /\ error = NoError
    /\ before = NoMessage
    /\ last = NoCall
    /\ built = NoBuilt
    /\ previous = NoBuilt
    /\ first = NoAttempt
    /\ app = NoApp
    /\ buckets = [id \in Identifiers |-> <<>>]
    /\ lock = 0
    /\ now = 0
    /\ tasks = [t \in TaskIds |-> NoTask]
    /\ returned = NoReturn
    /\ grants = [id \in Identifiers |-> <<>>]
    /\ redis = NoRedis
    /\ workers = [w \in WorkerIds |-> NoWorker]
    /\ requests = 0

Init == InitWith(Configs)


\* ------------------------------------------------------------ send_message
\* Mail.send_message up to the `async with`: the type check, the template
\* load and __prepare_message
Begin(m, tn) ==
    LET loaded == IF tn # "none" THEN get_mail_template(tn) ELSE NoError
        p == prepare_message(m, tn # "none")
    IN  /\ calls' = calls + 1
        /\ template_name' = tn
        /\ given' = m
        /\ emitted' = <<>>
        /\ session' = NoSession
        /\ pending' = NoError
        /\ sentInScope' = FALSE
        /\ IF m.cls = "NotModel"
           THEN /\ result' = Exc("PydanticClassRequired", "Message must be a Message class instance", "none")
                /\ message' = m /\ msg' = <<>> /\ events' = <<>> /\ pc' = "done"
           ELSE IF loaded # NoError
           THEN /\ result' = loaded
                /\ message' = m /\ msg' = <<>> /\ events' = <<Ev("load", FALSE)>> /\ pc' = "done"
           ELSE /\ message' = p.m
                /\ events' = (IF tn # "none" THEN <<Ev("load", TRUE)>> ELSE <<>>) \o p.events
                /\ IF p.err # NoError
                   THEN result' = p.err /\ msg' = <<>> /\ pc' = "done"
                   ELSE result' = NoError /\ msg' = p.parts /\ pc' = "aenter"

send_message(m, tn) ==
    /\ pc = "idle"
    /\ mass.st # "running"
    /\ calls < MaxCalls
    /\ Begin(m, tn)
    /\ UNCHANGED <<config, scopes, raiser, dispatchLog, mass>>
    /\ UNCHANGED <<first, descVars, serviceVars>>

\* a setup that goes on to the body whatever login did
AfterLoginProceeds(l) == "body"

\* _configure_connection after `await self.session.login(...)`: an exception
\* of login leaves through the except clauses, the body is not entered
AfterLogin(l) == IF l = "ok" THEN "body" ELSE "done"

\* Connection.__aenter__ -> _configure_connection. An exception leaves the
\* `async with` without __aexit__: the call ends here
configure_connection(c, l) ==
    /\ pc = "aenter"
    /\ IF config.SUPPRESS_SEND # 0
       THEN /\ c = "ok" /\ l = "ok"
            /\ pc' = "body"
            /\ UNCHANGED <<session, events, result>>
       ELSE IF c # "ok"
       THEN /\ l = "ok"
            /\ events' = Append(events, Ev("connect", FALSE))
            /\ result' = TranslateError(c)
            /\ pc' = "done"
            /\ UNCHANGED session
       ELSE IF ~config.USE_CREDENTIALS
       THEN /\ l = "ok"
            /\ events' = Append(events, Ev("connect", TRUE))
            /\ session' = [session EXCEPT !._connected = TRUE]
            /\ pc' = "body"
            /\ UNCHANGED result
       ELSE IF ~config.credentials
       THEN /\ l = "ok"
            /\ events' = Append(events, Ev("connect", TRUE))
            /\ session' = [session EXCEPT !._connected = TRUE]
            /\ result' = TranslateError("ConnectionErrors")
            /\ pc' = "done"
       ELSE /\ events' = events \o <<Ev("connect", TRUE), Ev("login", l = "ok")>>
            /\ session' = [session EXCEPT !._connected = TRUE]
            /\ pc' = AfterLogin(l)
            /\ IF l = "ok"
               THEN UNCHANGED result
               ELSE result' = TranslateError(l)
    /\ UNCHANGED <<config, given, message, template_name, msg, emitted, pending, calls,
                   scopes, raiser, dispatchLog, sentInScope, mass>>
    /\ UNCHANGED <<first, descVars, serviceVars>>

\* a body that sends whatever the settings say
TransmitsRegardless(cfg) == TRUE

\* the body of the `async with`, first statement: session.send_message(msg)
\* unless SUPPRESS_SEND
Transmits(cfg) == cfg.SUPPRESS_SEND = 0

\* a body that emits the notification although the transmission raised
AfterSendAlwaysEmits(o) == "emit"

\* an exception of session.send_message leaves the body: the statement after
\* it, email_dispatched.send(msg), is reached only when it returned
AfterSend(o) == IF o = "ok" THEN "emit" ELSE "aexit"

transmit(o) ==
    /\ pc = "body"
    /\ IF Transmits(config)
       THEN /\ events' = Append(events, Ev("send", o = "ok"))
            /\ sentInScope' = (ActiveScopes # {})
            /\ pc' = AfterSend(o)
            /\ pending' = IF o = "ok" THEN NoError ELSE Exc(o, "", "none")
       ELSE /\ o = "ok"
            /\ pc' = "emit"
            /\ UNCHANGED <<events, sentInScope, pending>>
    /\ UNCHANGED <<config, given, message, template_name, msg, session, emitted, result,
                   calls, scopes, raiser, dispatchLog, mass>>
    /\ UNCHANGED <<first, descVars, serviceVars>>

\* email_dispatched.send(msg): the receivers are called one after the other
\* in no fixed order; one that raises ends the loop, so only `got` received
Deliver(sc, got, id) ==
    [s \in ScopeIds |->
        IF s \in got THEN [sc[s] EXCEPT !.outbox = Append(@, id)] ELSE sc[s]]

dispatch(got) ==
    /\ pc = "emit"
    /\ got \subseteq Hooked
    /\ raiser \/ got = Hooked
    /\ events' = Append(events, Ev("emit", ~raiser))
    /\ emitted' = Append(emitted, msg)
    /\ dispatchLog' = Append(dispatchLog, [id |-> calls, raised |-> raiser])
    /\ scopes' = Deliver(scopes, got, calls)
    /\ pending' = IF raiser THEN Exc("SubscriberError", "", "none") ELSE NoError
    /\ pc' = "aexit"
    /\ UNCHANGED <<config, given, message, template_name, msg, session, result, calls,
                   raiser, sentInScope, mass>>
    /\ UNCHANGED <<first, descVars, serviceVars>>

\* Connection.__aexit__: quit when connected and not suppressed; an
\* SMTPException of quit is swallowed, _connected is cleared in any case
Quits(sess, cfg) == sess._connected /\ cfg.SUPPRESS_SEND = 0

\* __aexit__ that clears _connected after quit() inside the try block
AfterQuitNoFinally(sess, q) == IF q = "ok" THEN [sess EXCEPT !._connected = FALSE] ELSE sess

AfterQuit(sess, q) == [sess EXCEPT !._connected = FALSE]

\* __aexit__ without the except clause
QuitRaisesAny(q) == q # "ok"

\* `except aiosmtplib.SMTPException: pass`: only another exception leaves
QuitRaises(q) == q # "ok" /\ "SMTPException" \notin Bases(q)

aexit(q) ==
    /\ pc = "aexit"
    /\ IF Quits(session, config)
       THEN /\ events' = Append(events, Ev("quit", q = "ok"))
            /\ session' = AfterQuit(session, q)
            /\ result' = IF QuitRaises(q) THEN Exc(q, "", "none") ELSE pending
       ELSE /\ q = "ok"
            /\ result' = pending
            /\ UNCHANGED <<events, session>>
    /\ pc' = "done"
    /\ UNCHANGED <<config, given, message, template_name, msg, emitted, pending, calls,
                   scopes, raiser, dispatchLog, sentInScope, mass>>
    /\ UNCHANGED <<first, descVars, serviceVars>>


\* -------------------------------------------------------- send_mass_mail
\* the tuples of send_mass_mail: "good" has valid recipients, "bad" makes the
\* Message constructor of send_mail raise
Items == {"good", "bad"}
Datatuples(n) == UNION {[1 .. k -> Items] : k \in 0 .. n}

send_mass_mail(datatuple) ==
    /\ pc = "idle"
    /\ mass.st # "running"
    /\ calls + Len(datatuple) <= MaxBatch
    /\ mass' = [st |-> IF Len(datatuple) = 0 THEN "done" ELSE "running",
                items |-> datatuple, idx |-> 0, ids |-> <<>>, result |-> NoError]
    /\ UNCHANGED <<config, pc, calls, scopes, raiser, dispatchLog>>
    /\ UNCHANGED callVars
    /\ UNCHANGED <<first, descVars, serviceVars>>

\* one iteration of the loop of send_mass_mail: send_mail for the next tuple
send_mail ==
    /\ pc = "idle"
    /\ mass.st = "running"
    /\ mass.idx < Len(mass.items)
    /\ IF mass.items[mass.idx + 1] = "bad"
       THEN /\ mass' = [mass EXCEPT !.idx = @ + 1, !.st = "done",
                                    !.result = Exc("ValidationError", "recipients", "none")]
            /\ UNCHANGED <<pc, calls>>
            /\ UNCHANGED callVars
       ELSE /\ mass' = [mass EXCEPT !.idx = @ + 1, !.ids = Append(@, calls + 1)]
            /\ Begin(MailDescriptor, "none")
    /\ UNCHANGED <<config, scopes, raiser, dispatchLog>>
    /\ UNCHANGED <<first, descVars, serviceVars>>

\* a loop that goes on with the next tuple after a failure
MassAfterContinues(ms, res) ==
    IF ms.st # "running" THEN ms
    ELSE IF ms.idx = Len(ms.items) THEN [ms EXCEPT !.st = "done", !.result = res]
    ELSE ms

\* how the loop goes on when the send_message of a tuple is over
MassAfter(ms, res) ==
    IF ms.st # "running" THEN ms
    ELSE IF res # NoError THEN [ms EXCEPT !.st = "done", !.result = res]
    ELSE IF ms.idx = Len(ms.items) THEN [ms EXCEPT !.st = "done"]
    ELSE ms

\* send_message returns or raises to its caller
Return ==
    /\ pc = "done"
    /\ pc' = "idle"
    /\ mass' = MassAfter(mass, result)
    /\ given' = Blank("NotModel")
    /\ message' = Blank("NotModel")
    /\ template_name' = "none"
    /\ msg' = <<>>
    /\ events' = <<>>
    /\ emitted' = <<>>
    /\ pending' = NoError
    /\ result' = NoError
    /\ sentInScope' = FALSE
    /\ first' = NoAttempt
    /\ UNCHANGED <<config, session, calls, scopes, raiser, dispatchLog>>
    /\ UNCHANGED <<descVars, serviceVars>>

\* the exceptions of a delivery that did not go through: ConnectionErrors of
\* the setup, or what session.send_message raised
DeliveryFailed(r) == r.type = "ConnectionErrors" \/ r.type \in SendOutcomes \ {"ok"}

\* the caller catches the delivery error and calls send_message(message,
\* template_name) again, with the Message object it passed before
retry ==
    /\ pc = "done"
    /\ mass.st # "running"
    /\ calls < MaxCalls
    /\ ~first.made
    /\ DeliveryFailed(result)
    /\ first' = [made |-> TRUE, given |-> given, template_name |-> template_name,
                 msg |-> msg, result |-> result]
    /\ Begin(message, template_name)
    /\ UNCHANGED <<config, scopes, raiser, dispatchLog, mass>>
    /\ UNCHANGED <<descVars, serviceVars>>

\* --------------------------------------------------------- record_messages
\* entry of the context manager: email_dispatched.connect(_record)
record_messages(s) ==
    /\ scopes[s].st = "unused"
    /\ \A r \in ScopeIds : r < s => scopes[r].st # "unused"
    /\ scopes' = [scopes EXCEPT ![s] = [st |-> "open", hooked |-> TRUE, outbox |-> <<>>,
                                        enter |-> Len(dispatchLog), exit |-> 0]]
    /\ UNCHANGED <<config, pc, calls, raiser, dispatchLog, mass>>
    /\ UNCHANGED callVars
    /\ UNCHANGED <<first, descVars, serviceVars>>

\* a context manager that disconnects after the yield without try/finally
DisconnectUnlessRaised(sc, s, raised) ==
    IF raised THEN sc ELSE [sc EXCEPT ![s] = [@ EXCEPT !.hooked = FALSE]]

\* the finally clause: email_dispatched.disconnect(_record), whether the
\* body of the with statement ended normally or raised
Disconnect(sc, s, raised) ==
    [sc EXCEPT ![s] = [@ EXCEPT !.hooked = FALSE]]

record_messages_exit(s, raised) ==
    /\ scopes[s].st = "open"
    /\ scopes' = [Disconnect(scopes, s, raised) EXCEPT ![s].st = "closed",
                                                       ![s].exit = Len(dispatchLog)]
    /\ UNCHANGED <<config, pc, calls, raiser, dispatchLog, mass>>
    /\ UNCHANGED callVars
    /\ UNCHANGED <<first, descVars, serviceVars>>

\* another subscriber of email_dispatched, one that raises, is connected or
\* disconnected by the application
connect_subscriber ==
    /\ raiser' = ~raiser
    /\ UNCHANGED <<config, pc, calls, scopes, dispatchLog, mass>>
    /\ UNCHANGED callVars
    /\ UNCHANGED <<first, descVars, serviceVars>>

\* -------------------------------------------- the Message and its methods
\* Message(**kw): the object, or the exception of the validation
Message(kw) ==
    /\ descriptor = NoMessage
    /\ error = NoError
    /\ last = NoCall
    /\ kwargs' = kw
    /\ descriptor' = Message_init(kw).m
    /\ error' = Message_init(kw).err
    /\ last' = [NoCall EXCEPT !.op = "Message"]
    /\ UNCHANGED <<before, built, previous>>
    /\ UNCHANGED <<sendVars, serviceVars>>

\* message.add_recipient(recipient)
add_recipient(recipient) ==
    /\ descriptor.cls = "Message"
    /\ Len(descriptor.recipients) < Len(kwargs.recipients) + MaxAdds
    /\ before' = descriptor
    /\ descriptor' = recipients_append(descriptor, recipient)
    /\ last' = [op |-> "add_recipient", recipient |-> recipient, ret |-> TRUE]
    /\ built' = NoBuilt
    /\ previous' = NoBuilt
    /\ UNCHANGED <<kwargs, error>>
    /\ UNCHANGED <<sendVars, serviceVars>>

\* message.attach("d.txt", data), data holding so many lines
attach(lines) ==
    /\ descriptor.cls = "Message"
    /\ Len(descriptor.attachments) < MaxFiles
    /\ before' = descriptor
    /\ descriptor' = attachments_append(descriptor, "d.txt", lines)
    /\ last' = [NoCall EXCEPT !.op = "attach", !.ret = TRUE]
    /\ built' = NoBuilt
    /\ previous' = NoBuilt
    /\ UNCHANGED <<kwargs, error>>
    /\ UNCHANGED <<sendVars, serviceVars>>

\* MailMsg(**message.model_dump())._message(sender), as __prepare_message
\* calls it for a send without template; at most twice for a Message as it is
build ==
    /\ descriptor.cls = "Message"
    /\ ~previous.done
    /\ built' = MailMsg_build(descriptor)
    /\ previous' = built
    /\ descriptor' = AfterBuild(descriptor)
    /\ last' = [NoCall EXCEPT !.op = "build"]
    /\ UNCHANGED <<kwargs, error, before>>
    /\ UNCHANGED <<sendVars, serviceVars>>

\* --------------------------------------------------------------- init_app
\* app = Flask(__name__) with app.config updated from c
Flask(c) ==
    /\ ~app.created
    /\ app' = [NoApp EXCEPT !.created = TRUE, !.config = c]
    /\ UNCHANGED <<sendVars, descVars, limiterVars, checkerVars>>

\* mail.init_app(app), or Mail(app)
Mail_init_app ==
    /\ app.created
    /\ ~app.initialized
    /\ app' = [app EXCEPT !.initialized = TRUE,
                          !.error = init_app(app.config).error,
                          !.MAIL_FROM = init_app(app.config).MAIL_FROM]
    /\ UNCHANGED <<sendVars, descVars, limiterVars, checkerVars>>

\* ------------------------------------------------------------ RateLimiter
\* a task calls one of the methods and enters `async with self._lock`: the
\* lock is free, or the task waited until it was (a waiting task changes
\* nothing until then)
call(t, op, id) ==
    /\ tasks[t].pc = "idle"
    /\ lock = 0
    /\ lock' = t
    /\ tasks' = [tasks EXCEPT ![t] = [pc |-> "locked", op |-> op, identifier |-> id]]
    /\ UNCHANGED <<buckets, now, returned, grants>>
    /\ UNCHANGED <<sendVars, descVars, app, checkerVars>>

\* the task leaves the `async with` with the value it returns
Returns(t, value) ==
    /\ returned' = [task |-> t, op |-> tasks[t].op, identifier |-> tasks[t].identifier,
                    value |-> value]
    /\ tasks' = [tasks EXCEPT ![t] = NoTask]
    /\ lock' = 0

\* RateLimiter.is_allowed under the lock (no await in the block)
is_allowed(t) ==
    LET id == tasks[t].identifier
        bucket == Unexpired(buckets[id], now)
    IN  /\ tasks[t].pc = "locked"
        /\ tasks[t].op = "is_allowed"
        /\ IF AtLimit(Len(bucket))
           THEN /\ buckets' = [buckets EXCEPT ![id] = bucket]
                /\ Returns(t, BoolVal(FALSE))
                /\ UNCHANGED grants
           ELSE /\ buckets' = [buckets EXCEPT ![id] = Append(bucket, now)]
                /\ Returns(t, BoolVal(TRUE))
                /\ grants' = [grants EXCEPT ![id] = Append(@, now)]
        /\ UNCHANGED now
        /\ UNCHANGED <<sendVars, descVars, app, checkerVars>>

\* RateLimiter.get_remaining
get_remaining(t) ==
    LET id == tasks[t].identifier
        bucket == Unexpired(buckets[id], now)
    IN  /\ tasks[t].pc = "locked"
        /\ tasks[t].op = "get_remaining"
        /\ buckets' = [buckets EXCEPT ![id] = bucket]
        /\ Returns(t, IntVal(Remaining(buckets[id], now)))
        /\ UNCHANGED <<now, grants>>
        /\ UNCHANGED <<sendVars, descVars, app, checkerVars>>

\* RateLimiter.reset
reset(t) ==
    LET id == tasks[t].identifier
    IN  /\ tasks[t].pc = "locked"
        /\ tasks[t].op = "reset"
        /\ buckets' = [buckets EXCEPT ![id] = <<>>]
        /\ grants' = [grants EXCEPT ![id] = <<>>]
        /\ Returns(t, None)
        /\ UNCHANGED now
        /\ UNCHANGED <<sendVars, descVars, app, checkerVars>>

\* RateLimiter.get_reset_time
get_reset_time(t) ==
    LET id == tasks[t].identifier
    IN  /\ tasks[t].pc = "locked"
        /\ tasks[t].op = "get_reset_time"
        /\ Returns(t, reset_time(buckets[id], now))
        /\ UNCHANGED <<buckets, now, grants>>
        /\ UNCHANGED <<sendVars, descVars, app, checkerVars>>

\* time passes (a clock that does not go back)
Tick ==
    /\ now < MaxTime
    /\ now' = now + 1
    /\ UNCHANGED <<buckets, lock, tasks, returned, grants>>
    /\ UNCHANGED <<sendVars, descVars, app, checkerVars>>

\* --------------------------------------------------------- DefaultChecker
\* a worker calls blacklist_add_domain(domain) in Redis mode
blacklist_add_domain(w, domain) ==
    /\ workers[w].pc = "idle"
    /\ requests < MaxRequests
    /\ requests' = requests + 1
    /\ workers' = [workers EXCEPT ![w] = [pc |-> "hget", domain |-> domain, incr |-> 0]]
    /\ UNCHANGED redis
    /\ UNCHANGED <<sendVars, descVars, app, limiterVars>>

\* result = await client.hget("blocked_domains", domain); if not result: ...
hget(w) ==
    /\ workers[w].pc = "hget"
    /\ workers' = [workers EXCEPT ![w] =
                      IF redis.blocked_domains[workers[w].domain] # Nil
                      THEN NoWorker
                      ELSE [@ EXCEPT !.pc = "incr"]]
    /\ UNCHANGED <<redis, requests>>
    /\ UNCHANGED <<sendVars, descVars, app, limiterVars>>

\* incr = await client.incr("domain_counter")
incr(w) ==
    /\ workers[w].pc = "incr"
    /\ redis' = [redis EXCEPT !.domain_counter = @ + 1]
    /\ workers' = [workers EXCEPT ![w].pc = "hset", ![w].incr = redis.domain_counter + 1]
    /\ UNCHANGED requests
    /\ UNCHANGED <<sendVars, descVars, app, limiterVars>>

\* await client.hset("blocked_domains", domain, incr)
hset(w) ==
    /\ workers[w].pc = "hset"
    /\ redis' = [redis EXCEPT !.blocked_domains[workers[w].domain] = workers[w].incr]
    /\ workers' = [workers EXCEPT ![w] = NoWorker]
    /\ UNCHANGED requests
    /\ UNCHANGED <<sendVars, descVars, app, limiterVars>>

\* a worker calls blacklist_rm_domain(domain) in Redis mode
blacklist_rm_domain(w, domain) ==
    /\ workers[w].pc = "idle"
    /\ requests < MaxRequests
    /\ requests' = requests + 1
    /\ workers' = [workers EXCEPT ![w] = [pc |-> "hdel", domain |-> domain, incr |-> 0]]
    /\ UNCHANGED redis
    /\ UNCHANGED <<sendVars, descVars, app, limiterVars>>

\* res = await client.hdel("blocked_domains", domain); if res: ...
hdel(w) ==
    /\ workers[w].pc = "hdel"
    /\ redis' = [redis EXCEPT !.blocked_domains[workers[w].domain] = Nil]
    /\ workers' = [workers EXCEPT ![w] =
                      IF redis.blocked_domains[workers[w].domain] # Nil
                      THEN [@ EXCEPT !.pc = "decr"]
                      ELSE NoWorker]
    /\ UNCHANGED requests
    /\ UNCHANGED <<sendVars, descVars, app, limiterVars>>

\* await client.decr("domain_counter")
decr(w) ==
    /\ workers[w].pc = "decr"
    /\ redis' = [redis EXCEPT !.domain_counter = @ - 1]
    /\ workers' = [workers EXCEPT ![w] = NoWorker]
    /\ UNCHANGED requests
    /\ UNCHANGED <<sendVars, descVars, app, limiterVars>>

\* -------------------------------------------------------- specifications
\* the steps of one send_message call
Pipeline ==
    \/ \E c \in ConnectOutcomes, l \in LoginOutcomes : configure_connection(c, l)
    \/ \E o \in SendOutcomes : transmit(o)
    \/ \E got \in SUBSET ScopeIds : dispatch(got)
    \/ \E q \in QuitOutcomes : aexit(q)
    \/ Return

\* send_message calls, one after the other, with any descriptor
Next ==
    \/ \E a \in SendArgs : send_message(a.m, a.tn)
    \/ Pipeline
    \/ connect_subscriber

Spec == Init /\ [][Next]_vars

\* send_mass_mail calls; the only subscribers are well-behaved
InitMass == InitWith(Configs)

NextMass ==
    \/ \E d \in Datatuples(MaxBatch) : send_mass_mail(d)
    \/ send_mail
    \/ Pipeline

SpecMass == InitMass /\ [][NextMass]_vars

\* send_message calls while record_messages scopes are entered and left; the
\* recorders are the only subscribers
RecordConfigs == {c \in Configs : ~c.USE_CREDENTIALS /\ c.credentials}

InitRecord == InitWith(RecordConfigs)

NextRecord ==
    \/ \E a \in RecordArgs : send_message(a.m, a.tn)
    \/ Pipeline
    \/ \E s \in ScopeIds : record_messages(s)
    \/ \E s \in ScopeIds, raised \in BOOLEAN : record_messages_exit(s, raised)

SpecRecord == InitRecord /\ [][NextRecord]_vars

\* one Message: its construction, then add_recipient, attach and the building
\* of the MIME message in any order. The constructions vary the content
\* fields, the address fields and the attachments, one family at a time
DataLines == {1, 2}

SeqsUpTo(S, n) == UNION {[1 .. k -> S] : k \in 0 .. n}

ContentKwargs ==
    { Kwargs(<<Address(1, 1, 1)>>, <<>>, <<>>, <<>>, <<>>, b, None, tb, tp, st) :
        b \in BodyValues,
        tb \in {None, DictVal(0), DictVal(1), ListVal(0), ListVal(1)},
        tp \in {None, DictVal(2), ListVal(2)},
        st \in {NotGiven, Given("none"), Given("plain"), Given("html")} }

AddressLists == {<<>>, <<Address(2, 1, 1)>>, <<Address(1, 0, 0)>>}

AddressKwargs ==
    { Kwargs(r, cc, bcc, rt, <<>>, StrVal(1), None, None, None, Given("plain")) :
        r \in SeqsUpTo(Addresses, 2), cc \in AddressLists, bcc \in AddressLists,
        rt \in AddressLists }

AttachmentKwargs ==
    { Kwargs(r, <<>>, <<>>, <<>>, a, StrVal(1), None, None, None, NotGiven) :
        r \in {<<Address(1, 1, 1)>>, <<Address(1, 0, 0)>>}, a \in SeqsUpTo(Sources, MaxFiles) }

\* the arguments of the add_recipient calls: an address that may be there
\* already, and a string that is no address
NewRecipients == {Address(1, 1, 1), Address(1, 0, 0)}

MessageKwargs == ContentKwargs \cup AddressKwargs \cup AttachmentKwargs

InitMessage == InitWith({c \in RecordConfigs : c.SUPPRESS_SEND = 1})

NextMessage ==
    \/ descriptor = NoMessage /\ \E kw \in MessageKwargs : Message(kw)
    \/ \E r \in NewRecipients : add_recipient(r)
    \/ \E n \in DataLines : attach(n)
    \/ build

SpecMessage == InitMessage /\ [][NextMessage]_vars


\* send_message and its repetition by the caller, nothing suppressed, no
\* receiver connected
RetryArgs == {a \in SendArgs : a.m.cls = "Message"}

InitRetry == InitWith({c \in Configs : c.SUPPRESS_SEND = 0})

NextRetry ==
    \/ \E a \in RetryArgs : send_message(a.m, a.tn)
    \/ retry
    \/ Pipeline

SpecRetry == InitRetry /\ [][NextRetry]_vars

\* the rate limiter and its concurrent callers
InitLimiter == InitWith({c \in RecordConfigs : c.SUPPRESS_SEND = 1})

NextLimiter ==
    \/ \E t \in TaskIds, op \in LimiterOps, id \in Identifiers : call(t, op, id)
    \/ \E t \in TaskIds : is_allowed(t)
    \/ \E t \in TaskIds : get_remaining(t)
    \/ \E t \in TaskIds : reset(t)
    \/ \E t \in TaskIds : get_reset_time(t)
    \/ Tick

SpecLimiter == InitLimiter /\ [][NextLimiter]_vars

\* the domain blacklist in Redis mode and its concurrent callers
InitChecker == InitWith({c \in RecordConfigs : c.SUPPRESS_SEND = 1})

NextChecker ==
    \/ \E w \in WorkerIds, d \in Domains : blacklist_add_domain(w, d)
    \/ \E w \in WorkerIds, d \in Domains : blacklist_rm_domain(w, d)
    \/ \E w \in WorkerIds : hget(w)
    \/ \E w \in WorkerIds : incr(w)
    \/ \E w \in WorkerIds : hset(w)
    \/ \E w \in WorkerIds : hdel(w)
    \/ \E w \in WorkerIds : decr(w)

SpecChecker == InitChecker /\ [][NextChecker]_vars

\* init_app over application configs: every key absent, empty or set; the
\* sender keys set to an address or to a text that is none
Texts(n) == {Unset, Value(Address(0, 0, 0)), Value(Address(n, 1, 1)), Value(Address(n, 0, 0))}

AppConfigs ==
    [MAIL_USERNAME : Texts(3), MAIL_PASSWORD : Texts(4) \ {Value(Address(4, 1, 1))},
     MAIL_SERVER : Texts(5) \ {Value(Address(5, 1, 1))},
     MAIL_FROM : Texts(1), MAIL_DEFAULT_SENDER : Texts(2)]

NextInit ==
    \/ \E c \in AppConfigs : Flask(c)
    \/ Mail_init_app

SpecInit == Init /\ [][NextInit]_vars

\* ------------------------------------------------------------------ claims
TransportOps == {"connect", "login", "send", "quit"}

\* connect returned and, when USE_CREDENTIALS is on, login returned
SetupSucceeded == Did(events, "connect") /\ (config.USE_CREDENTIALS => Did(events, "login"))

\* connect or login raised, or the credentials were missing
SetupFailed ==
    /\ Count(events, "connect") = 1
    /\ Count(events, "send") = 0
    /\ ~SetupSucceeded

\* C1: a send_message call whose connect (and login, when USE_CREDENTIALS is
\* on) succeeded attempts quit exactly once before it returns or raises,
\* whether the transmission succeeded or raised or a subscriber raised, and
\* the session is then marked not connected.
QuitOnceAfterSetup ==
    /\ Count(events, "quit") <= 1
    /\ (pc = "done" /\ SetupSucceeded) =>
          (Count(events, "quit") = 1 /\ ~session._connected)

QuitAfterSubscriberRaised ==
    /\ pc = "done"
    /\ SetupSucceeded
    /\ result.type = "SubscriberError"
    /\ events[Len(events)] = Ev("quit", FALSE)
    /\ ~session._connected

\* C2 (as claimed): whenever connect succeeded the transport is shut down
\* (quit attempted, session marked not connected) before the call returns or
\* raises, also when the setup fails after the connect.
NoOpenTransportLeft ==
    (pc = "done" /\ Did(events, "connect")) =>
        (Count(events, "quit") = 1 /\ ~session._connected)

\* C3: with SUPPRESS_SEND set a call performs no transport operation; for a
\* descriptor that builds, the built message is handed to the subscribers and
\* the call completes without error (an error can only be one a subscriber
\* itself raised).
SuppressedSendOnlyDispatches ==
    config.SUPPRESS_SEND # 0 =>
        /\ \A i \in 1 .. Len(events) : events[i].op \notin TransportOps
        /\ (pc = "done" /\ Did(events, "build")) =>
              /\ emitted = <<msg>>
              /\ Did(events, "emit") => result = NoError
              /\ result # NoError => result.type = "SubscriberError"

SuppressedSendCompleted ==
    /\ config.SUPPRESS_SEND # 0
    /\ pc = "done"
    /\ msg # <<>>
    /\ emitted = <<msg>>
    /\ result = NoError

\* C4: the notification is emitted exactly once, with the built message, by a
\* call that was suppressed or whose transmission succeeded, and never by a
\* call that failed in the type check, the template, the build, the connection
\* setup or the transmission.
ReachedDispatch ==
    \/ Did(events, "send")
    \/ config.SUPPRESS_SEND # 0 /\ Did(events, "build")

EmittedOnceIffSent ==
    /\ Len(emitted) <= 1
    /\ \A i \in 1 .. Len(emitted) : emitted[i] = msg
    /\ pc # "idle" =>
          Cardinality({i \in 1 .. Len(dispatchLog) : dispatchLog[i].id = calls}) = Len(emitted)
    /\ pc = "done" => Len(emitted) = IF ReachedDispatch THEN 1 ELSE 0

EmittedAfterTransmission ==
    /\ pc = "done"
    /\ Did(events, "send")
    /\ emitted = <<msg>>

\* C5 (as claimed): every failure of connect or login reaches the caller as
\* ConnectionErrors chained to the exception, with a message that tells the
\* authentication failure, the connect failure, the generic protocol failure
\* and the timeout apart (a connect timeout may be told as either).
MessagesFor(e) ==
    IF e = "SMTPAuthenticationError" THEN {"Authentication failed"}
    ELSE IF "TimeoutError" \in Bases(e) /\ "SMTPConnectError" \in Bases(e)
    THEN {"Connection timed out", "Could not connect to SMTP server"}
    ELSE IF "TimeoutError" \in Bases(e) THEN {"Connection timed out"}
    ELSE IF "SMTPConnectError" \in Bases(e) THEN {"Could not connect to SMTP server"}
    ELSE IF "SMTPException" \in Bases(e) THEN {"SMTP error"}
    ELSE {"Unexpected connection error"}

SetupFailuresToldApart ==
    (pc = "done" /\ SetupFailed) =>
        /\ result.type = "ConnectionErrors"
        /\ result.cause # "none"
        /\ result.msg \in MessagesFor(result.cause)

\* C6: send_mass_mail sends its tuples in input order, one at a time (a
\* tuple's connection is released before the next tuple is touched), and stops
\* at the first failing one: the error reaches the caller, no later tuple is
\* built, connected or sent, and the dispatched messages are those of the
\* tuples before the failing one, in input order.
InMass(e) == \E i \in 1 .. Len(mass.ids) : mass.ids[i] = e.id
Ids(log) == [i \in 1 .. Len(log) |-> log[i].id]
MassDispatched == Ids(SelectSeq(dispatchLog, InMass))

ScopeSlice(s) ==
    SubSeq(dispatchLog, scopes[s].enter + 1,
           IF scopes[s].st = "open" THEN Len(dispatchLog) ELSE scopes[s].exit)

NoTransmissionWhileRecording == ~sentInScope

\* C9 (as claimed): a call with an object that is not a Message fails with
\* the type error before a template is loaded, a message built, a connection
\* opened or a notification emitted.
NonDescriptorRejectedFirst ==
    (pc = "done" /\ given.cls # "Message") =>
        /\ result.type = "PydanticClassRequired"
        /\ events = <<>>
        /\ emitted = <<>>

\* C10: send_message(msg, template_name) on a descriptor with a non-empty
\* sequence or mapping as template_body and no html renders the template (the
\* sequence under the key body, the mapping as keywords), writes the rendered
\* string into msg.template_body, sets msg.subtype to "html", and the message
\* it dispatches carries the rendered string as its HTML part.
TemplateApplies ==
    /\ pc = "done"
    /\ template_name = "t.html"
    /\ given.cls = "Message"
    /\ Truthy(given.template_body)
    /\ given.template_body.t \in {"list", "dict"}
    /\ ~Truthy(given.html)

Rendering(tb) == IF tb.t = "list" THEN RenderBody(tb) ELSE RenderKeywords(tb)

TemplateRenderedIntoDescriptor ==
    TemplateApplies =>
        /\ message.template_body = Rendering(given.template_body)
        /\ message.subtype = "html"
        /\ Did(events, "render") /\ Did(events, "build")
        /\ \E j \in 1 .. Len(msg) : msg[j] = Part("html", Rendering(given.template_body))
        /\ Cardinality({j \in 1 .. Len(msg) : msg[j].subtype = "html"}) = 1
        /\ \A i \in 1 .. Len(emitted) : emitted[i] = msg

RenderedListDispatched ==
    /\ TemplateApplies
    /\ given.template_body.t = "list"
    /\ given.subtype = "none"
    /\ emitted = <<msg>>

\* C11: send_message with a template name on a descriptor that has both
\* template data (a non-empty sequence or mapping) and html fails with the
\* content-conflict error of the builder; the descriptor's body stays as it
\* was (unset), its template_body holds the rendered output, no connection is
\* opened and no notification is emitted.
ConflictApplies ==
    /\ pc = "done"
    /\ template_name = "t.html"
    /\ given.cls = "Message"
    /\ Truthy(given.template_body)
    /\ given.template_body.t \in {"list", "dict"}
    /\ Truthy(given.html)

TemplateAndHtmlConflict ==
    ConflictApplies =>
        /\ result = Exc("ValueError", "Cannot send both Jinja2 template content and HTML content", "ValueError")
        /\ message.body = given.body
        /\ message.template_body = Rendering(given.template_body)
        /\ \A i \in 1 .. Len(events) : events[i].op \notin TransportOps \cup {"emit"}
        /\ ~session._connected
        /\ emitted = <<>>
        /\ \A i \in 1 .. Len(dispatchLog) : dispatchLog[i].id # calls

ConflictLeavesBodyUnset ==
    /\ ConflictApplies
    /\ given.template_body.t = "list"
    /\ given.body = None
    /\ message.body = None
    /\ result.type = "ValueError"
    /\ config.SUPPRESS_SEND = 0

\* C12 (as claimed): after the construction of a Message, subtype is "html"
\* whenever template_body is non-empty, whether the caller passed another
\* subtype or none at all.
SubtypeForcedToHtml ==
    (descriptor.cls = "Message" /\ last.op = "Message" /\ Truthy(descriptor.template_body)) =>
        descriptor.subtype = "html"

\* C13 (as claimed): constructed with template_params and an empty
\* template_body (absent, or an empty mapping or sequence), the Message has
\* template_body equal to template_params; a non-empty template_body is left
\* as supplied.
Constructed == descriptor.cls = "Message" /\ last.op = "Message"

TemplateParamsFillEmptyBody ==
    (Constructed /\ kwargs.template_params # None) =>
        descriptor.template_body =
            IF Truthy(kwargs.template_body) THEN kwargs.template_body
            ELSE kwargs.template_params

\* C13 (amended): constructed with template_params and template_body absent
\* (None), the Message has template_body equal to template_params; a
\* template_body that was supplied, an empty mapping or sequence too, is left
\* as supplied.
TemplateParamsFillAbsentBody ==
    (Constructed /\ kwargs.template_params # None) =>
        descriptor.template_body =
            IF kwargs.template_body # None THEN kwargs.template_body
            ELSE kwargs.template_params

TemplateParamsCopied ==
    /\ Constructed
    /\ kwargs.template_body = None
    /\ kwargs.template_params = DictVal(2)
    /\ descriptor.template_body = DictVal(2)
    /\ descriptor.template_params = DictVal(2)

\* C14 (as claimed): for a descriptor with html set and no template_body,
\* whatever its body and subtype, the built message has exactly one HTML part
\* and its content is html.
HtmlParts(parts) == SelectSeq(parts, LAMBDA q : q.subtype = "html")

HtmlPartIsHtml ==
    (/\ pc # "idle"
     /\ given.cls = "Message"
     /\ Truthy(given.html)
     /\ ~Truthy(given.template_body)
     /\ Did(events, "build")) =>
        HtmlParts(msg) = <<Part("html", given.html)>>

\* C15 (as claimed): for a descriptor with only body set (no html, no
\* template_body, no template name) the built message has exactly one text
\* part, holding the body, and after send_message body and subtype of the
\* descriptor are what the caller supplied.
OnlyBody ==
    /\ pc = "done"
    /\ given.cls = "Message"
    /\ template_name = "none"
    /\ Truthy(given.body)
    /\ ~Truthy(given.html)
    /\ ~Truthy(given.template_body)

OnlyBodyOneTextPart ==
    OnlyBody =>
        /\ msg = <<Part("plain", given.body)>>
        /\ message.body = given.body
        /\ message.subtype = given.subtype

\* C15 (amended): for such a descriptor the built message has exactly one
\* plain text part, holding the body, followed, only when subtype is "html",
\* by one HTML part holding the same body; after send_message body and
\* subtype of the descriptor are what the caller supplied.
OnlyBodyPlainPartAndLegacyHtml ==
    OnlyBody =>
        /\ msg = <<Part("plain", given.body)>>
                 \o (IF given.subtype = "html" THEN <<Part("html", given.body)>> ELSE <<>>)
        /\ message.body = given.body
        /\ message.subtype = given.subtype
        /\ Did(events, "build")

BodySentAsHtmlToo ==
    /\ OnlyBody
    /\ given.subtype = "html"
    /\ Len(msg) = 2
    /\ emitted = <<msg>>
    /\ result = NoError

\* C16 (as claimed): after the construction of a Message and any sequence of
\* add_recipient calls, every entry of recipients, cc, bcc and reply_to is a
\* syntactically valid email address.
RecipientsAreEmails ==
    descriptor.cls = "Message" =>
        /\ AllEmails(descriptor.recipients)
        /\ AllEmails(descriptor.cc)
        /\ AllEmails(descriptor.bcc)
        /\ AllEmails(descriptor.reply_to)

\* C17: add_recipient(address) appends exactly one entry at the end of
\* recipients, leaves the recipients that were there, their order and every
\* other field as they were, and returns True.
AddRecipientAppendsOne ==
    last.op = "add_recipient" =>
        /\ descriptor.recipients = Append(before.recipients, last.recipient)
        /\ [descriptor EXCEPT !.recipients = before.recipients] = before
        /\ last.ret

DuplicateRecipientAppended ==
    /\ last.op = "add_recipient"
    /\ Len(before.recipients) = 2
    /\ before.recipients[1] = last.recipient
    /\ Len(descriptor.recipients) = 3
    /\ descriptor.cc # <<>>

\* C18 (as claimed): for a Message holding N attachments, however they were
\* added (paths, file handles or metadata dictionaries at construction, or
\* later attach calls), building the message succeeds and yields exactly N
\* attachment parts, in order, each with Content-Disposition: attachment and
\* the filename of its attachment.
AttachmentsRoundTrip ==
    (built.done /\ MailMsg_message(descriptor).err = NoError) =>
        /\ built.err = NoError
        /\ Len(built.files) = Len(descriptor.attachments)
        /\ \A i \in 1 .. Len(built.files) :
              /\ built.files[i].disposition = "attachment"
              /\ built.files[i].filename =
                    IF descriptor.attachments[i].filename = "" THEN "attachment"
                    ELSE descriptor.attachments[i].filename

\* C19: a string attachment source that is unreadable, is no regular file, or
\* holds ".." or a null byte, makes the construction raise WrongFile: no
\* Message is produced, so nothing is built (or sent) from it.
BadPath(src) ==
    /\ src.kind = "str"
    /\ ~src.path.regular \/ ~src.path.readable \/ src.path.dotdot \/ src.path.nul

BadPathRejected ==
    (\E i \in 1 .. Len(kwargs.attachments) : BadPath(kwargs.attachments[i])) =>
        /\ error.type = "WrongFile"
        /\ descriptor = NoMessage
        /\ built = NoBuilt

TraversalRejectedAfterGoodEntry ==
    /\ Len(kwargs.attachments) = 2
    /\ kwargs.attachments[1] \in GoodSources
    /\ kwargs.attachments[2].kind = "str"
    /\ kwargs.attachments[2].path = PathOf(TRUE, TRUE, TRUE, FALSE, TRUE)
    /\ error = WrongFile("Invalid file path for attachment")
    /\ descriptor = NoMessage

\* C20 (as claimed): every string attachment source that the validation
\* accepts is a file under the current working directory; a readable regular
\* file outside it, given by an absolute path without "..", is rejected.
AcceptedUnderWorkingDirectory ==
    descriptor.cls = "Message" =>
        \A i \in 1 .. Len(kwargs.attachments) :
            kwargs.attachments[i].kind = "str" => ~kwargs.attachments[i].path.outside


\* ------------------------------------------------------------------ C21
\* C21: building the same descriptor twice yields the same message, Date and
\* Message-ID apart: the same headers, the same body parts and the same
\* attachment parts, payloads included.
\* (the first build gave a message; a build that raises gives none)
SecondBuild == previous.done /\ previous.err = NoError /\ built.done

BuildIsIdempotent == SecondBuild => built = previous

\* ------------------------------------------------------------------ C22
\* C22: with the required keys present, init_app takes as sender MAIL_FROM
\* when it is configured with a value, otherwise MAIL_DEFAULT_SENDER,
\* otherwise MAIL_USERNAME, and never fails for lack of a sender while one of
\* the three carries a non-empty address.
Initialized == app.initialized /\ Missing(app.config) = {}

\* the value of a key that is configured with a value, else the default
config_getOrEmpty(c, key, default) == IF Falsy(c[key]) THEN default ELSE c[key]

ResolvedSender(c) ==
    config_getOrEmpty(c, "MAIL_FROM",
                      config_getOrEmpty(c, "MAIL_DEFAULT_SENDER",
                                        config_getOrEmpty(c, "MAIL_USERNAME", Unset)))

SenderKeys == {"MAIL_FROM", "MAIL_DEFAULT_SENDER", "MAIL_USERNAME"}

LacksSender(e) ==
    e = Exc("ValueError", "MAIL_FROM, MAIL_DEFAULT_SENDER, or MAIL_USERNAME must be configured",
            "none")

SenderResolved ==
    Initialized =>
        /\ (\E key \in SenderKeys : IsEmail(config_get(app.config, key, Unset).text))
               => ~LacksSender(app.error)
        /\ IsEmail(ResolvedSender(app.config).text) =>
               /\ app.error = NoError
               /\ app.MAIL_FROM = ResolvedSender(app.config)

\* ------------------------------------------------------------------ C23
\* C23: within one send_message call with sending not suppressed, every
\* transport operation occurs at most once and only in the order connect,
\* login, send, quit; login occurs only when USE_CREDENTIALS is on; send
\* occurs only after connect and any required login succeeded; nothing is
\* attempted again after it failed.
Rank(op) ==
    CASE op = "connect" -> 1
      [] op = "login" -> 2
      [] op = "send" -> 3
      [] op = "quit" -> 4
      [] OTHER -> 0

TransportEvents == SelectSeq(events, LAMBDA e : e.op \in TransportOps)

SingleUseSession ==
    config.SUPPRESS_SEND = 0 =>
        /\ \A i, j \in 1 .. Len(TransportEvents) :
               i < j => Rank(TransportEvents[i].op) < Rank(TransportEvents[j].op)
        /\ Count(events, "login") > 0 => config.USE_CREDENTIALS
        /\ Count(events, "send") > 0 => SetupSucceeded
        /\ \A i \in 1 .. Len(TransportEvents) :
               (~TransportEvents[i].ok /\ TransportEvents[i].op \in {"connect", "login"})
                   => i = Len(TransportEvents)

\* the four operations ran, each once, and the transmission failed
FailedSendNotRetried ==
    /\ pc = "done"
    /\ config.SUPPRESS_SEND = 0
    /\ [i \in 1 .. Len(TransportEvents) |-> TransportEvents[i].op]
           = <<"connect", "login", "send", "quit">>
    /\ ~TransportEvents[3].ok

\* ------------------------------------------------------------------ C24
\* C24: a protocol-level error raised by quit during the release of the
\* connection is swallowed: send_message returns, or raises the exception of
\* the body, as it would have had quit succeeded, and the session is marked
\* not connected. (Every error quit raises here is an SMTPException.)
QuitFailed ==
    /\ pc = "done"
    /\ \E i \in 1 .. Len(events) : events[i].op = "quit" /\ ~events[i].ok

QuitErrorSwallowed == QuitFailed => (result = pending /\ ~session._connected)

\* quit raised after a transmission that went through: the call returns
QuitFailedAfterSend ==
    /\ QuitFailed
    /\ Did(events, "send")
    /\ result = NoError

\* ------------------------------------------------------------------ C25
\* C25: the MIME builder fails with the content-conflict error exactly when
\* both template_body and html are set on the descriptor it builds from; a
\* descriptor with template_body set and html unset never fails with it.
ConflictError ==
    Exc("ValueError", "Cannot send both Jinja2 template content and HTML content", "ValueError")

\* the call reached MailMsg._message and has ended
BuilderRan == pc = "done" /\ Count(events, "build") = 1

ConflictOnlyWithHtml ==
    BuilderRan =>
        ((~Did(events, "build") /\ result = ConflictError)
            <=> (Truthy(message.template_body) /\ Truthy(message.html)))

\* ------------------------------------------------------------------ C28
\* C28: after a send_message(msg, template_name) call failed with a
\* connection or transmission error, the same call with the same descriptor
\* renders and builds a message with the same parts as the first attempt.
Repeated == first.made /\ first.template_name = template_name

SendIsRepeatable == Repeated => (Did(events, "build") /\ msg = first.msg)

\* ------------------------------------------------------------------ C26
\* C26: for every identifier, whatever the order of the is_allowed calls of
\* the tasks, no more than max_emails of the grants (since the last reset)
\* have their times in one window of window_seconds, and the bucket never
\* holds more than max_emails unexpired grants.
GrantsIn(id, from) ==
    {i \in 1 .. Len(grants[id]) : from <= grants[id][i] /\ grants[id][i] < from + window_seconds}

GrantsWithinLimit ==
    \A id \in Identifiers :
        /\ Len(Unexpired(buckets[id], now)) <= max_emails
        /\ \A from \in 0 .. MaxTime : Cardinality(GrantsIn(id, from)) <= max_emails

\* a request is denied in a window that is full again after an earlier one
\* expired
DeniedInFullWindow ==
    /\ returned.op = "is_allowed"
    /\ returned.value = BoolVal(FALSE)
    /\ Len(Unexpired(buckets[returned.identifier], now)) = max_emails
    /\ Len(grants[returned.identifier]) > max_emails

\* ------------------------------------------------------------------ C27
\* C27: get_reset_time(identifier) returns the seconds until the limit
\* resets when the identifier is rate limited, and None whenever it is not:
\* also when it has fewer than max_emails grants, or only expired ones.
RateLimited(id) == AtLimit(Len(Unexpired(buckets[id], now)))

InGetResetTime(t) == tasks[t].pc = "locked" /\ tasks[t].op = "get_reset_time"

ResetTimeOnlyWhenLimited ==
    \A t \in TaskIds :
        InGetResetTime(t) =>
            LET id == tasks[t].identifier
            IN  reset_time(buckets[id], now)
                    = IF RateLimited(id)
                      THEN FloatVal(Oldest(Unexpired(buckets[id], now)) + window_seconds - now)
                      ELSE None

\* ------------------------------------------------------------------ C29
\* C29: for every identifier, get_remaining returns max(0, max_emails minus
\* the number of is_allowed calls for it that returned True within the last
\* window_seconds and since its last reset): denied calls, get_remaining,
\* get_reset_time and calls for other identifiers do not count.
Quota(id) ==
    Max(0, max_emails
           - Cardinality({i \in 1 .. Len(grants[id]) : now - grants[id][i] < window_seconds}))

RemainingIsQuota == \A id \in Identifiers : Remaining(buckets[id], now) = Quota(id)

\* get_remaining returned the quota left after a grant, the earlier grants
\* having expired and the other identifier being at its limit
RemainingAfterExpiry ==
    /\ returned.op = "get_remaining"
    /\ returned.value = IntVal(max_emails - 1)
    /\ Quota(returned.identifier) = max_emails - 1
    /\ Len(grants[returned.identifier]) > max_emails
    /\ \E id \in Identifiers \ {returned.identifier} : Quota(id) = 0

\* ------------------------------------------------------------------ C30
\* C30: in Redis mode, once the concurrent blacklist_add_domain and
\* blacklist_rm_domain calls have ended, blocked_domain_count reports the
\* number of domains stored in the blocked_domains table.
Quiescent == \A w \in WorkerIds : workers[w].pc = "idle"

CountMatchesTable == Quiescent => blocked_domain_count(redis) = Cardinality(Stored(redis))

====
